---- MODULE Spec2Model ----
(***************************************************************************)
(* Model of the focusmusic scheduling core.                                *)
(*                                                                         *)
(* Part 1: Clock (src/src/clock.ts), the lookahead tick scheduler.         *)
(*                                                                         *)
(* Time is the value of the external time source getTime().  It is kept as *)
(* an integer number of time units, UnitsPerSecond units to the second,    *)
(* chosen so that tickDuration = 60 / bpm / 4 is a whole number of units   *)
(* for every tempo of the model (BpmArgs clamped, CtorBpms).  The          *)
(* arithmetic of schedule() is the exact (real) arithmetic of the source;  *)
(* the rounding of IEEE doubles is not modelled.                           *)
(*                                                                         *)
(* A scheduling pass is not atomic: it calls listener callbacks, and a     *)
(* callback is foreign code that may call back into the Clock.  One step   *)
(* of the model is one callback invocation (with the call the callback     *)
(* makes into the Clock, if any) followed by the code of schedule() up to  *)
(* the next callback invocation or the end of the pass.                    *)
(*                                                                         *)
(* Part 2: Modulator (src/src/modulation.ts), a noise function scaled by   *)
(* a configuration.  Part 3: the node tracker NodeCounter and the          *)
(* transient sounds of the layers, each of which reports the nodes it      *)
(* creates and sets a timer for their teardown.  Each part has its own     *)
(* specification; the other parts stay in their initial state in it.       *)
(*                                                                         *)
(* Part 4: the times of the transient sounds (src/src/layers/beat.ts,      *)
(* src/src/layers/arp.ts, the kits of src/unnamed/part_000).  A sound is   *)
(* scheduled on the audio clock at the time its tick was announced with,   *)
(* and its teardown is a setTimeout counted from the call.  Both clocks    *)
(* are taken to run at one rate, and a handler to take no time to run.     *)
(* Times of this part are in fine units, FineUnits to the second, so that  *)
(* every swing offset and note duration is a whole number of them.         *)
(*                                                                         *)
(* Part 5: the life of one layer (PadLayer src/unnamed/part_004,           *)
(* TextureLayer src/unnamed/part_003, ArpLayer, BeatLayer): its master     *)
(* gain as the timeline of automation events the code schedules, its       *)
(* persistent sources, and the timers of its phrase mutation, of its hard  *)
(* stop and of its notes.  The layer is followed at the phrase boundaries  *)
(* of its Clock.  The engine that owns the Clock is not among the sources; *)
(* it is stopped by stopLayers right after the layers.                     *)
(***************************************************************************)
EXTENDS Integers, Sequences, FiniteSets, TLC

\* ---------------------------------------------------------------- bounds
MaxSteps == 2          \* the time source is observed up to MaxSteps * Grid
MaxCalls == 3          \* calls of the Clock's methods in one run
MaxPeriods == 280      \* a long session is observed up to MaxPeriods * Period
MaxOps == 8            \* operations on the node tracker and the layers in one run
MaxNotes == 1          \* notes an arp layer plays at the phrase boundaries of a run

\* -------------------------------------------------------------- constants
UnitsPerSecond == 7 * 1000
Grid == UnitsPerSecond \div 5          \* 200 ms: granularity of observed time
Delays == {0, 1}                       \* time between two reads, in Grid steps
Period == UnitsPerSecond \div 40       \* 25 ms: the period of setInterval
TimelyBy == {1, 2, 4}                    \* a pass runs 25, 50, 100 ms after the last
LateBy == {1, 4, 40}                   \* a pass runs 25 ms, 100 ms, 1 s after the last
Listeners == {"a", "b"}                \* listener objects
\* the listeners subscribed when a run begins
InitialListeners == {<<>>, <<"a">>, <<"a", "b">>}
CtorBpms == {140, 200}                 \* constructor arguments
BpmArgs == {10, 120, 500}              \* setBpm arguments

ticksPerBeat == 4
beatsPerBar == 4
barsPerPhrase == 4
\* (mutant) a lookahead of 10 ms, shorter than the period of the passes
scheduleAhead_Short == UnitsPerSecond \div 100

scheduleAhead == UnitsPerSecond \div 10   \* 0.1 s
MinBpm == 60
MaxBpm == 140

\* Modulator: noise values are kept in units of 1 / NoiseScale, so that
\* NoiseVals is -1, 0.5 and 1; values returned by getValue are in the same
\* units and those of getNormalized in units of 1 / (2 * NoiseScale)
NoiseScale == 1 + 1
NoiseVals == {-NoiseScale, 1, NoiseScale}
Bases == {0, 5}                          \* config.base
Ranges == {-1, 0, 3}                     \* config.range
Speeds == {1, 2}                         \* config.speed
Times == {0, 1, 2}                       \* the argument of an evaluation
NoisePoints == {t * sp : t \in Times, sp \in Speeds}

\* NodeCounter: the arguments of create and cleanup (1 is the default)
Counts == {1, 2, 6}
\* the paths that create a transient sound; an arp note has one or two
\* oscillator layers
OscLayers == {1, 2}
Paths == {"kick", "click", "noise", "ghost", "note1", "note2"}

Max(a, b) == IF a >= b THEN a ELSE b
Min(a, b) == IF a <= b THEN a ELSE b

\* ------------------------------------------------------------- variables
VARIABLES
  bpm, currentTick, currentBeat, currentBar, currentPhrase,
  listeners,      \* the listeners array, in insertion order
  intervalId,     \* this.intervalId: 0 is undefined, else a timer id
  startTime,
  now,            \* the external time source
  intervals,      \* the interval timers that are set and not cleared
  lastScheduledTick,  \* timer id -> the closure variable of its start()
  starts,         \* number of start() calls so far (the next timer id - 1)
  pc,             \* "idle", or "firing" inside a scheduling pass
  frame,          \* the locals of the pass in progress
  ev,             \* the callback this step delivered, or NoEv
  last,           \* the last callback delivered since start(), or NoEv
  sess,           \* what has happened since the last start()
  fan,            \* the fan-out (forEach) in progress
  fanDone,        \* the fan-out this step completed, or NoFan
  calls           \* calls of the Clock's methods made so far

clockVars == <<bpm, currentTick, currentBeat, currentBar, currentPhrase,
               listeners, intervalId, startTime, now, intervals,
               lastScheduledTick, starts, pc, frame>>
obsVars == <<ev, last, sess, fan, fanDone, calls>>

\* Part 2: Modulator (src/src/modulation.ts)
VARIABLES
  config,         \* this.config: base, range, speed
  noise2D,        \* the noise function made by the constructor, at this.offset
  mret,           \* the evaluation this step made and what it returned
  mkept           \* an earlier evaluation, made since the last setter call

modVars == <<config, noise2D, mret, mkept>>

\* Part 3: the node tracker (src/unnamed/part_001) and the transient sounds
\* of the layers (src/src/layers/arp.ts, src/src/layers/beat.ts)
VARIABLES
  created,        \* NodeCounter.created
  cleaned,        \* NodeCounter.cleaned
  bal,            \* count -> create(count) calls minus cleanup(count) calls
  pending,        \* creation path -> its teardown timers set and not yet fired
  running,        \* the layers of a track are receiving ticks
  tracks,         \* createLayers() calls so far
  wasReset,       \* reset() was called
  nops            \* operations so far

trackerVars == <<created, cleaned, bal, pending, running, tracks, wasReset, nops>>

\* Part 4: the times of the transient sounds
VARIABLES
  kit,            \* BeatLayer.kit
  preset,         \* ArpLayer.preset
  heard,          \* the transient units the last tick callback emitted
  stick           \* the last tick callback: layer, tick, announced time, call time

soundVars == <<kit, preset, heard, stick>>

\* Part 5: the life of one layer
VARIABLES
  lay,            \* the layer: its kind and the fields of the object
  gainEv,         \* masterGain.gain: the automation events, in time order
  timers,         \* the setTimeout timers of the layer that are pending
  srcs,           \* the groups of persistent sources made so far; the
                  \* last is the one the layer's fields refer to
  ltime,          \* the time of the last step
  lev             \* the last step

layerVars == <<lay, gainEv, timers, srcs, ltime, lev>>

\* Part 6: the tonal centre the layers of a track share
VARIABLES
  state,          \* engine.state: root and scale
  currentChord,   \* PadLayer.currentChord
  cev,            \* the last step, and the root the track began with
  cops            \* steps so far

chordVars == <<state, currentChord, cev, cops>>

\* Part 7: Modulators made from configuration objects of their caller
VARIABLES
  objs,           \* the caller's configuration objects
  mcfg,           \* Modulator -> the object its this.config refers to
  mnoise,         \* Modulator -> its noise function, at its offset
  bev             \* the last step

bankVars == <<objs, mcfg, mnoise, bev>>

\* Part 8: the simple-mode player (src/unnamed/part_002)
VARIABLES
  made,           \* the tracks createLayers has made, in order
  layers,         \* the variable `layers` of main(): an index into made
  isQuitting,
  trackStart,     \* the variable startTime of main()
  waits,          \* the stopLayers promises pending, with who awaits them
  nextProgress,   \* when progressInterval fires next; -1 when cleared
  ctime,          \* the time of the last step
  pev,            \* the last step
  presses         \* key presses so far

cliVars == <<made, layers, isQuitting, trackStart, waits, nextProgress,
             ctime, pev, presses>>

laterVars == <<chordVars, bankVars, cliVars>>

\* everything but the Clock
restVars == <<modVars, trackerVars, soundVars, layerVars, laterVars>>
vars == <<clockVars, obsVars, restVars>>

NoEv == [l |-> "", kind |-> "none", n |-> -1, time |-> -1, tick |-> -1]
NoFrame == [id |-> 0, tick |-> -1, targetTick |-> -1, tickTime |-> 0,
            idx |-> 0, len |-> 0, l |-> "", stage |-> "none"]
\* a fan-out: the tick, the array when its forEach began, the onTick calls
\* each listener got in it, the listeners unsubscribed while it ran, and
\* whether the array was changed while it ran
NoFan == [tick |-> -1, snap |-> <<>>, got |-> [x \in Listeners |-> 0],
          removed |-> {}, changed |-> FALSE]
NewFan(tick, L) == [NoFan EXCEPT !.tick = tick, !.snap = L]
\* since the last start(): setBpm changed the tempo, the array was changed,
\* the stop() calls that have returned, an earlier start()'s timer was still
\* set at start(), the tempo at start(), and the last onTick index each
\* listener got
NewSess == [started |-> FALSE, bpmChanged |-> FALSE, subsChanged |-> FALSE,
            stops |-> 0, overlap |-> FALSE, bpmAtStart |-> 0,
            lastTick |-> [x \in Listeners |-> -1]]

\* ------------------------------------------------------- pure functions
\* get tickDuration(): 60 / bpm / ticksPerBeat, in time units
tickDuration(b) == (60 * UnitsPerSecond) \div (b * ticksPerBeat)

\* setBpm's clamp
\* (mutant) only the upper limit is applied
clampBpm_UpperOnly(x) == Min(MaxBpm, x)

clampBpm(x) == Max(MinBpm, Min(MaxBpm, x))

\* (mutant) the target is rounded up past the lookahead window
targetTickAt_RoundUp(t, st, tt) == (t - st + scheduleAhead) \div tt + 1

\* targetTick of schedule(): floor(elapsed / tickTime + scheduleAhead / tickTime)
targetTickAt(t, st, tt) == (t - st + scheduleAhead) \div tt

\* (mutant) the time of the pass is announced instead of the ideal time
tickStartTime_OfPass(st, tick, tt) == now

\* tickStartTime of schedule()
tickStartTime(st, tick, tt) == st + tick * tt

beatOf(tick) == tick \div ticksPerBeat
barOf(tick) == beatOf(tick) \div beatsPerBar
phraseOf(tick) == barOf(tick) \div barsPerPhrase
tickInBeat(tick) == tick % ticksPerBeat
beatInBar(tick) == beatOf(tick) % beatsPerBar
barInPhrase(tick) == barOf(tick) % barsPerPhrase

\* (mutant) onPhrase is guarded like onBar
fires_PhraseEveryBar(kind, tick) ==
  CASE kind = "tick" -> TRUE
    [] kind = "beat" -> tickInBeat(tick) = 0
    [] OTHER -> tickInBeat(tick) = 0 /\ beatInBar(tick) = 0

\* the guards of the four callbacks in the forEach body
fires(kind, tick) ==
  CASE kind = "tick" -> TRUE
    [] kind = "beat" -> tickInBeat(tick) = 0
    [] kind = "bar" -> tickInBeat(tick) = 0 /\ beatInBar(tick) = 0
    [] kind = "phrase" -> tickInBeat(tick) = 0 /\ beatInBar(tick) = 0
                          /\ barInPhrase(tick) = 0
    [] OTHER -> FALSE

\* the argument each callback is called with
argOf(kind, tick) ==
  CASE kind = "tick" -> tick
    [] kind = "beat" -> beatOf(tick)
    [] kind = "bar" -> barOf(tick)
    [] kind = "phrase" -> phraseOf(tick)
    [] OTHER -> -1

\* (mutant) onBar is called before onBeat
nextStage_BarFirst(kind, tick) ==
  CASE kind = "tick" /\ fires("bar", tick) -> "bar"
    [] kind = "tick" /\ fires("beat", tick) -> "beat"
    [] kind = "bar" -> "beat"
    [] kind = "beat" /\ fires("phrase", tick) -> "phrase"
    [] OTHER -> "none"

\* the callback that follows `kind` in the forEach body for this tick,
\* or "none" when the body is finished
nextStage(kind, tick) ==
  CASE kind = "tick" /\ fires("beat", tick) -> "beat"
    [] kind = "beat" /\ fires("bar", tick) -> "bar"
    [] kind = "bar" /\ fires("phrase", tick) -> "phrase"
    [] OTHER -> "none"

\* Array.prototype.indexOf, 1-based; 0 when absent
RECURSIVE indexFrom(_, _, _)
indexFrom(L, x, i) ==
  IF i > Len(L) THEN 0
  ELSE IF L[i] = x THEN i ELSE indexFrom(L, x, i + 1)
indexOf(L, x) == indexFrom(L, x, 1)

\* listeners.push(listener)
pushListener(L, x) == Append(L, x)

\* unsubscribe: indexOf, then splice(idx, 1) when found
spliceListener(L, x) ==
  LET i == indexOf(L, x)
  IN IF i = 0 THEN L
     ELSE [k \in 1..(Len(L) - 1) |-> IF k < i THEN L[k] ELSE L[k + 1]]

Range(L) == {L[k] : k \in 1..Len(L)}

\* ------------------------------------------------------ position records
\* (mutant) the bar counter follows the beat counter
Pos_BarIsBeat(tick) == [tick |-> tick, beat |-> beatOf(tick),
                        bar |-> beatOf(tick), phrase |-> phraseOf(tick)]

\* the counters the tick loop stores after the fan-out of `tick`
Pos(tick) == [tick |-> tick, beat |-> beatOf(tick), bar |-> barOf(tick),
              phrase |-> phraseOf(tick)]
\* getPosition()
getPosition == [tick |-> currentTick, beat |-> currentBeat,
                bar |-> currentBar, phrase |-> currentPhrase]
\* getBpm()
getBpm == bpm
SetPosition(p) ==
  /\ currentTick' = p.tick
  /\ currentBeat' = p.beat
  /\ currentBar' = p.bar
  /\ currentPhrase' = p.phrase

\* ------------------------------------------------- the scheduling pass
\* The for loop of schedule() entered at tick t0 with the array L: where
\* control stops next.  With no tick due the loop body never runs; with an
\* empty array every due tick runs an empty forEach and only the counters
\* move; otherwise control stops at the first callback of tick t0.
loopFrom(id, t0, target, tt, L, p0) ==
  IF t0 > target THEN [frame |-> NoFrame, pos |-> p0]
  ELSE IF Len(L) = 0 THEN [frame |-> NoFrame, pos |-> Pos(target)]
  ELSE [frame |-> [id |-> id, tick |-> t0, targetTick |-> target,
                   tickTime |-> tt, idx |-> 0, len |-> Len(L),
                   l |-> L[1], stage |-> "tick"],
        pos |-> p0]

\* Array.prototype.forEach after the callback for index f.idx returned:
\* the length was read once when forEach began (f.len); an index is visited
\* if it is still a property of the array L, which splice() may have
\* shortened and shifted.
forEachNext(f, L) ==
  LET j == f.idx + 1
  IN IF j < f.len /\ j < Len(L) THEN j ELSE -1

\* where control stops after the forEach body for index f.idx has returned
afterBody(f, L, p0) ==
  LET j == forEachNext(f, L)
  IN IF j >= 0
     THEN [frame |-> [f EXCEPT !.idx = j, !.l = L[j + 1], !.stage = "tick"],
           pos |-> p0]
     ELSE loopFrom(f.id, f.tick + 1, f.targetTick, f.tickTime, L, Pos(f.tick))

\* what a callback may do with the Clock while it runs
NoCall == [op |-> "none", l |-> ""]
CallbackCalls ==
  {NoCall, [op |-> "stop", l |-> ""]}
    \cup {[op |-> o, l |-> x] : o \in {"subscribe", "unsubscribe"}, x \in Listeners}

\* (mutant) start() leaves the counters of the session before
startPosition_Kept == getPosition

\* the counters start() stores before its first pass
startPosition == Pos(0)

\* (mutant) the loop starts at lastScheduledTick itself
firstTick_Refire(lst) == Max(lst, 0)

\* the first tick of the for loop: lastScheduledTick + 1
firstTick(lst) == lst + 1

\* (mutant) stop() toggles: with no timer set it sets the last one again
clearedIntervals_Toggle(ivs, iid) ==
  IF iid # 0 THEN ivs \ {iid} ELSE ivs \cup {k \in {starts} : k > 0}

\* stop(): clearInterval(this.intervalId) when it is set
clearedIntervals(ivs, iid) == IF iid # 0 THEN ivs \ {iid} ELSE ivs

\* the listeners array after the call a callback makes
listenersAfter(L, c) ==
  CASE c.op = "subscribe" -> pushListener(L, c.l)
    [] c.op = "unsubscribe" -> spliceListener(L, c.l)
    [] OTHER -> L

\* ------------------------------------------------- the parts not running
\* no evaluation of a Modulator, and no Modulator
\* an evaluation: the function, its argument, the value returned, and
\* whether other evaluations were made since it
NoRet == [fn |-> "none", t |-> -1, val |-> 0, others |-> FALSE]
NoConfig == [base |-> 0, range |-> 0, speed |-> 0]

NoModulator ==
  /\ config = NoConfig
  /\ noise2D = [x \in NoisePoints |-> 0]
  /\ mret = NoRet
  /\ mkept = NoRet

\* a fresh node tracker, and no layers
NoTracker ==
  /\ created = 0
  /\ cleaned = 0
  /\ bal = [n \in Counts |-> 0]
  /\ pending = [p \in Paths |-> 0]
  /\ running = FALSE
  /\ tracks = 0
  /\ wasReset = FALSE
  /\ nops = 0

\* no beat layer and no arp layer
NoKit == [name |-> "none", pattern |-> "sparse", decay |-> 0, swing |-> 0,
          click |-> FALSE, noise |-> FALSE]
NoPreset == [name |-> "None", noteDuration |-> 0, oscillators |-> 0]
NoStick == [layer |-> "none", tick |-> -1, time |-> 0, call |-> 0]
NoSound ==
  /\ kit = NoKit
  /\ preset = NoPreset
  /\ heard = {}
  /\ stick = NoStick

\* no layer is followed
NoLay == [kind |-> "none", isActive |-> FALSE, phraseCount |-> 0,
          patterns |-> 0, notes |-> 0, stops |-> 0, ticked |-> -1,
          phrased |-> -1, nset |-> 0]
NoLev == [op |-> "none", at |-> 0, time |-> 0, began |-> FALSE,
          found |-> "none", threw |-> FALSE]
NoLayer ==
  /\ lay = NoLay
  /\ gainEv = <<>>
  /\ timers = {}
  /\ srcs = <<>>
  /\ ltime = 0
  /\ lev = NoLev

\* no track with a tonal centre, no Modulators, no player
NoState == [root |-> 0, scale |-> <<>>]
NoCev == [op |-> "none", read |-> 0, temp |-> 0, orig |-> 0]
NoChord ==
  /\ state = NoState
  /\ currentChord = <<>>
  /\ cev = NoCev
  /\ cops = 0
NoBev == [op |-> "none", mod |-> "", t |-> 0, val |-> 0]
NoBank ==
  /\ objs = <<>>
  /\ mcfg = <<>>
  /\ mnoise = <<>>
  /\ bev = NoBev
NoPev == [op |-> "none", track |-> 0, stopped |-> 0]
NoCli ==
  /\ made = <<>>
  /\ layers = 0
  /\ isQuitting = FALSE
  /\ trackStart = 0
  /\ waits = {}
  /\ nextProgress = -1
  /\ ctime = 0
  /\ pev = NoPev
  /\ presses = 0
NoLater == NoChord /\ NoBank /\ NoCli

\* --------------------------------------------------------------- actions
\* new Clock(b, getTime), with the listeners L subscribed before the run
NewClock(b, L) ==
  /\ bpm = b
  /\ currentTick = 0 /\ currentBeat = 0 /\ currentBar = 0 /\ currentPhrase = 0
  /\ listeners = L
  /\ intervalId = 0
  /\ startTime = 0
  /\ now = 0
  /\ intervals = {}
  /\ lastScheduledTick = [i \in 1..MaxCalls |-> -1]
  /\ starts = 0
  /\ pc = "idle"
  /\ frame = NoFrame
  /\ ev = NoEv
  /\ last = NoEv
  /\ sess = NewSess
  /\ fan = NoFan
  /\ fanDone = NoFan
  /\ calls = 0

InitClock == \E b \in CtorBpms, L \in InitialListeners : NewClock(b, L)

\* a run of the Clock: no Modulator is evaluated and no sound is made in it
Init ==
  InitClock /\ NoModulator /\ NoTracker /\ NoSound /\ NoLayer /\ NoLater

\* a step that delivers no callback and completes no fan-out
Quiet == ev' = NoEv /\ fanDone' = NoFan

\* a call of one of the Clock's methods
Called == calls < MaxCalls /\ calls' = calls + 1

\* The external time source is monotonic.  The Clock reads it in start() and
\* at the top of schedule(): the values such a read may return.
TimeReads == {t \in {now + d * Grid : d \in Delays} : t <= MaxSteps * Grid}
LateReads == {t \in {now + d * Period : d \in LateBy} : t <= MaxPeriods * Period}
TimelyReads ==
  {t \in {now + d * Period : d \in TimelyBy} : t <= MaxPeriods * Period}

\* subscribe(listener), called between passes
Subscribe ==
  /\ pc = "idle"
  /\ Called
  /\ \E x \in Listeners : listeners' = pushListener(listeners, x)
  /\ sess' = [sess EXCEPT !.subsChanged = TRUE]
  /\ Quiet
  /\ UNCHANGED <<bpm, currentTick, currentBeat, currentBar, currentPhrase,
                 intervalId, startTime, now, intervals, lastScheduledTick,
                 starts, pc, frame, last, fan, restVars>>

\* unsubscribe(listener), called between passes
Unsubscribe ==
  /\ pc = "idle"
  /\ Called
  /\ \E x \in Listeners :
       /\ listeners' = spliceListener(listeners, x)
       /\ sess' = [sess EXCEPT !.subsChanged = @ \/ (listeners' # listeners)]
  /\ Quiet
  /\ UNCHANGED <<bpm, currentTick, currentBeat, currentBar, currentPhrase,
                 intervalId, startTime, now, intervals, lastScheduledTick,
                 starts, pc, frame, last, fan, restVars>>

\* setBpm(x), called between passes
SetBpmTo(x) ==
  /\ pc = "idle"
  /\ Called
  /\ bpm' = clampBpm(x)
  /\ sess' = [sess EXCEPT !.bpmChanged = @ \/ (bpm' # bpm)]
  /\ Quiet
  /\ UNCHANGED <<currentTick, currentBeat, currentBar, currentPhrase,
                 listeners, intervalId, startTime, now, intervals,
                 lastScheduledTick, starts, pc, frame, last, fan, restVars>>

SetBpm == \E x \in BpmArgs : SetBpmTo(x)

\* stop(), called between passes
Stop ==
  /\ pc = "idle"
  /\ Called
  /\ intervals' = clearedIntervals(intervals, intervalId)
  /\ intervalId' = 0
  /\ sess' = [sess EXCEPT !.stops = @ + 1]
  /\ Quiet
  /\ UNCHANGED <<bpm, currentTick, currentBeat, currentBar, currentPhrase,
                 listeners, startTime, now, lastScheduledTick, starts, pc,
                 frame, last, fan, restVars>>

\* schedule() of the start() call that made timer id, up to its first
\* callback: p0 are the counters and st the startTime on entry
EnterPass(id, t, st, p0) ==
  LET tt == tickDuration(bpm)
      target == targetTickAt(t, st, tt)
      r == loopFrom(id, firstTick(lastScheduledTick[id]), target, tt,
                    listeners, p0)
  IN /\ SetPosition(r.pos)
     /\ frame' = r.frame
     /\ IF r.frame = NoFrame
        THEN /\ pc' = "idle"
             /\ lastScheduledTick' = [lastScheduledTick EXCEPT ![id] = target]
             /\ fan' = fan
        ELSE /\ pc' = "firing"
             /\ lastScheduledTick' = lastScheduledTick
             /\ fan' = NewFan(r.frame.tick, listeners)

\* start(): startTime and the counters are reset, a new interval timer is
\* set (any earlier one stays set), and schedule() runs at once
Start ==
  /\ pc = "idle"
  /\ Called
  /\ starts' = starts + 1
  /\ \E t \in TimeReads :
       /\ now' = t
       /\ startTime' = t
       /\ EnterPass(starts + 1, t, t, startPosition)
  /\ intervalId' = starts + 1
  /\ intervals' = intervals \cup {starts + 1}
  /\ sess' = [NewSess EXCEPT !.started = TRUE, !.overlap = (intervals # {}),
                            !.bpmAtStart = bpm]
  /\ last' = NoEv
  /\ Quiet
  /\ UNCHANGED <<bpm, listeners, restVars>>

\* an interval timer fires: one scheduling pass of its start() call, which
\* reads a time in T
TimerFireAt(T) ==
  /\ pc = "idle"
  /\ \E id \in intervals, t \in T :
       /\ now' = t
       /\ EnterPass(id, t, startTime, getPosition)
  /\ Quiet
  /\ UNCHANGED <<bpm, listeners, intervalId, startTime, intervals,
                 starts, last, sess, calls, restVars>>

\* One callback of the forEach body runs on frame.l, makes the call c into
\* the Clock, and returns; schedule() then runs up to its next callback.
DeliverCall(c) ==
  /\ pc = "firing"
  /\ IF c.op = "none" THEN calls' = calls ELSE Called
  /\ LET f == frame
         e == [l |-> f.l, kind |-> f.stage, n |-> argOf(f.stage, f.tick),
               time |-> tickStartTime(startTime, f.tick, f.tickTime),
               tick |-> f.tick]
         L1 == listenersAfter(listeners, c)
         ns == nextStage(f.stage, f.tick)
         r == IF ns # "none"
              THEN [frame |-> [f EXCEPT !.stage = ns], pos |-> getPosition]
              ELSE afterBody(f, L1, getPosition)
         bodyDone == ns = "none"
         completes == bodyDone /\ forEachNext(f, L1) < 0
         cur1 == [fan EXCEPT
                    !.got[f.l] = IF f.stage = "tick" THEN @ + 1 ELSE @,
                    !.removed = IF c.op = "unsubscribe" /\ L1 # listeners
                                THEN @ \cup {c.l} ELSE @,
                    !.changed = @ \/ (L1 # listeners)]
     IN /\ ev' = e
        /\ last' = e
        /\ listeners' = L1
        /\ intervals' = IF c.op = "stop"
                        THEN clearedIntervals(intervals, intervalId)
                        ELSE intervals
        /\ intervalId' = IF c.op = "stop" THEN 0 ELSE intervalId
        /\ sess' = [sess EXCEPT
                      !.lastTick[f.l] = IF f.stage = "tick" THEN f.tick ELSE @,
                      !.subsChanged = @ \/ (L1 # listeners),
                      !.stops = IF c.op = "stop" THEN @ + 1 ELSE @]
        /\ SetPosition(r.pos)
        /\ frame' = r.frame
        /\ pc' = IF r.frame = NoFrame THEN "idle" ELSE "firing"
        /\ lastScheduledTick' =
             IF r.frame = NoFrame
             THEN [lastScheduledTick EXCEPT ![f.id] = f.targetTick]
             ELSE lastScheduledTick
        /\ fan' = IF ~completes THEN cur1
                  ELSE IF r.frame = NoFrame THEN NoFan
                  ELSE NewFan(r.frame.tick, L1)
        /\ fanDone' = IF completes THEN cur1 ELSE NoFan
  /\ UNCHANGED <<bpm, startTime, now, starts, restVars>>

TimerFire == TimerFireAt(TimeReads)

Deliver == \E c \in CallbackCalls : DeliverCall(c)

\* one long session of listeners that make no call into the Clock
StartOnce == starts = 0 /\ Start

LateTimerFire == TimerFireAt(LateReads)

DeliverPassive == DeliverCall(NoCall)

Next ==
  \/ Subscribe
  \/ Unsubscribe
  \/ SetBpm
  \/ Stop
  \/ Start
  \/ TimerFire
  \/ Deliver

Spec == Init /\ [][Next]_vars

NextSession ==
  \/ StartOnce
  \/ LateTimerFire
  \/ DeliverPassive

SpecSession == Init /\ [][NextSession]_vars

\* one session whose passes are never more than the lookahead window apart;
\* the interval timer keeps firing and a pass that has begun runs to its end
TimelyTimerFire == TimerFireAt(TimelyReads)

NextTimely ==
  \/ StartOnce
  \/ TimelyTimerFire
  \/ DeliverPassive

SpecTimely ==
  /\ Init /\ [][NextTimely]_vars
  /\ WF_vars(TimelyTimerFire) /\ WF_vars(DeliverPassive)

\* ============================================================= Modulator
\* (mutant) the noise depends on the evaluation made before
noiseValue_Stateful(time) ==
  IF mret = NoRet THEN noise2D[time * config.speed]
  ELSE -noise2D[time * config.speed]

\* this.noise2D(time * this.config.speed, this.offset)
noiseValue(time) == noise2D[time * config.speed]

\* getValue(time), in units of 1 / NoiseScale
getValue(time) == NoiseScale * config.base + noiseValue(time) * config.range

\* getNormalized(time), in units of 1 / (2 * NoiseScale)
getNormalized(time) == noiseValue(time) + NoiseScale

\* new Modulator(config): any noise function with values in [-1, 1]
InitModulator ==
  /\ NewClock(MaxBpm, <<>>)
  /\ NoLater
  /\ config \in [base : Bases, range : Ranges, speed : Speeds]
  /\ noise2D \in [NoisePoints -> NoiseVals]
  /\ mret = NoRet
  /\ mkept = NoRet
  /\ NoTracker
  /\ NoSound
  /\ NoLayer

\* an evaluation returns r; the caller may keep it to compare later
Evaluated(r) ==
  /\ mret' = r
  /\ mkept' \in {IF mkept = NoRet \/ (mkept.fn = r.fn /\ mkept.t = r.t)
                 THEN mkept ELSE [mkept EXCEPT !.others = TRUE],
                 r}
  /\ UNCHANGED <<config, noise2D>>
  /\ UNCHANGED <<clockVars, obsVars, trackerVars, soundVars, layerVars, laterVars>>

GetValue ==
  \E t \in Times :
    Evaluated([NoRet EXCEPT !.fn = "getValue", !.t = t, !.val = getValue(t)])

GetNormalized ==
  \E t \in Times :
    Evaluated([NoRet EXCEPT !.fn = "getNormalized", !.t = t,
                            !.val = getNormalized(t)])

\* a setter stores the new configuration
Configured(c) ==
  /\ config' = c
  /\ mret' = NoRet
  /\ mkept' = NoRet
  /\ UNCHANGED noise2D
  /\ UNCHANGED <<clockVars, obsVars, trackerVars, soundVars, layerVars, laterVars>>

SetBase == \E b \in Bases : Configured([config EXCEPT !.base = b])

SetRange == \E r \in Ranges : Configured([config EXCEPT !.range = r])

SetSpeed == \E sp \in Speeds : Configured([config EXCEPT !.speed = sp])

NextModulator ==
  \/ GetValue
  \/ GetNormalized
  \/ SetBase
  \/ SetRange
  \/ SetSpeed

SpecModulator == InitModulator /\ [][NextModulator]_vars

\* =========================================================== NodeCounter
\* (mutant) create stores the count instead of adding it
afterCreate_Replace(c, count) == count

\* this.created += count
afterCreate(c, count) == c + count

\* (mutant) cleanup keeps the count of its last call only
afterCleanup_Last(c, count) == count

\* (mutant) cleanup counts one node whatever the count
afterCleanup_One(c, count) == c + 1

\* this.cleaned += count
afterCleanup(c, count) == c + count

\* (mutant) getActive() subtracts the wrong way round
getActive_Reversed == cleaned - created

\* getActive()
getActive == created - cleaned

\* getStats()
getStats == [created |-> created, cleaned |-> cleaned,
             active |-> created - cleaned]

\* an operation on the tracker or the layers
Op == nops < MaxOps /\ nops' = nops + 1

InitTracker ==
  /\ NewClock(MaxBpm, <<>>)
  /\ NoLater
  /\ NoModulator
  /\ NoTracker
  /\ NoSound
  /\ NoLayer

\* nodeCounter.create(count)
Create ==
  /\ Op
  /\ \E n \in Counts :
       /\ created' = afterCreate(created, n)
       /\ bal' = [bal EXCEPT ![n] = @ + 1]
  /\ UNCHANGED <<cleaned, pending, running, tracks, wasReset>>
  /\ UNCHANGED <<clockVars, obsVars, modVars, soundVars, layerVars, laterVars>>

\* nodeCounter.cleanup(count)
Cleanup ==
  /\ Op
  /\ \E n \in Counts :
       /\ cleaned' = afterCleanup(cleaned, n)
       /\ bal' = [bal EXCEPT ![n] = @ - 1]
  /\ UNCHANGED <<created, pending, running, tracks, wasReset>>
  /\ UNCHANGED <<clockVars, obsVars, modVars, soundVars, layerVars, laterVars>>

\* nodeCounter.reset()
Reset ==
  /\ Op
  /\ created' = 0
  /\ cleaned' = 0
  /\ bal' = [n \in Counts |-> 0]
  /\ wasReset' = TRUE
  /\ UNCHANGED <<pending, running, tracks>>
  /\ UNCHANGED <<clockVars, obsVars, modVars, soundVars, layerVars, laterVars>>

NextTracker ==
  \/ Create
  \/ Cleanup
  \/ Reset

SpecTracker == InitTracker /\ [][NextTracker]_vars

\* ================================================================ layers
\* the nodes a creation path reports to nodeCounter.create
createCount(path) ==
  CASE path = "kick" -> 2
    [] path = "click" -> 2
    [] path = "noise" -> 6
    [] path = "ghost" -> 2
    [] path = "note1" -> 1 + 1 + 2
    [] path = "note2" -> 2 + 2 + 2

\* (mutant) the teardown of the noise transient reports the 4 oscillators only
cleanupCount_NoiseOscs(path) ==
  CASE path = "noise" -> 4
    [] OTHER -> createCount(path)

\* the nodes the teardown of a creation path reports to nodeCounter.cleanup
cleanupCount(path) ==
  CASE path = "kick" -> 2
    [] path = "click" -> 2
    [] path = "noise" -> 6
    [] path = "ghost" -> 2
    [] path = "note1" -> 1 + 1 + 2
    [] path = "note2" -> 2 + 2 + 2

RECURSIVE SumOver(_, _)
SumOver(f, S) ==
  IF S = {} THEN 0
  ELSE LET x == CHOOSE y \in S : TRUE IN f[x] + SumOver(f, S \ {x})

\* a sequence of creation paths runs inside one tick callback: each calls
\* nodeCounter.create and sets the timer of its teardown
Played(ps) ==
  /\ running
  /\ Op
  /\ created' = afterCreate(created, SumOver([p \in ps |-> createCount(p)], ps))
  /\ pending' = [p \in Paths |-> IF p \in ps THEN pending[p] + 1 ELSE pending[p]]
  /\ UNCHANGED <<cleaned, bal, running, tracks, wasReset>>
  /\ UNCHANGED <<clockVars, obsVars, modVars, soundVars, layerVars, laterVars>>

\* ArpLayer.playNote, with a preset of one or two oscillator layers
PlayNote == \E k \in OscLayers : Played({IF k = 1 THEN "note1" ELSE "note2"})

\* BeatLayer.playKick, with the click and the noise transient of the kit
PlayKick ==
  \E click \in SUBSET {"click"}, noise \in SUBSET {"noise"} :
    Played({"kick"} \cup click \cup noise)

\* BeatLayer.playGhostKick
PlayGhostKick == Played({"ghost"})

\* the callback of a teardown timer of path p: it disconnects the nodes its
\* closure holds and calls nodeCounter.cleanup with the count of its path
teardown(pd, c, p) ==
  [pending |-> [pd EXCEPT ![p] = @ - 1],
   cleaned |-> afterCleanup(c, cleanupCount(p))]

\* the teardown timer of a creation path fires
Teardown ==
  /\ Op
  /\ \E p \in Paths :
       /\ pending[p] > 0
       /\ pending' = teardown(pending, cleaned, p).pending
       /\ cleaned' = teardown(pending, cleaned, p).cleaned
  /\ UNCHANGED <<created, bal, running, tracks, wasReset>>
  /\ UNCHANGED <<clockVars, obsVars, modVars, soundVars, layerVars, laterVars>>

\* createLayers(): a new engine and new layers, and the engine is started
CreateLayers ==
  /\ ~running
  /\ Op
  /\ running' = TRUE
  /\ tracks' = tracks + 1
  /\ UNCHANGED <<created, cleaned, bal, pending, wasReset>>
  /\ UNCHANGED <<clockVars, obsVars, modVars, soundVars, layerVars, laterVars>>

\* stopLayers(): the layers fade out and the engine, with its Clock, stops
StopLayers ==
  /\ running
  /\ Op
  /\ running' = FALSE
  /\ UNCHANGED <<created, cleaned, bal, pending, tracks, wasReset>>
  /\ UNCHANGED <<clockVars, obsVars, modVars, soundVars, layerVars, laterVars>>

NextLayers ==
  \/ CreateLayers
  \/ StopLayers
  \/ PlayNote
  \/ PlayKick
  \/ PlayGhostKick
  \/ Teardown
  \/ Reset

SpecLayers == InitTracker /\ [][NextLayers]_vars

\* ========================================================= sound times
\* fine time units: 1 / FineUnits of a second
FineUnits == 10 * UnitsPerSecond
Fine(t) == (FineUnits \div UnitsPerSecond) * t
Ms(n) == n * (FineUnits \div 1000)

\* DRUM_KITS: the pattern type, kick.decay in ms, swing in thousandths, and
\* whether kick.clickAmount and kick.noiseAmount are positive
DRUM_KITS ==
  { [name |-> "Deep House", pattern |-> "four-on-floor", decay |-> 300,
     swing |-> 100, click |-> TRUE, noise |-> TRUE],
    [name |-> "Techno", pattern |-> "four-on-floor", decay |-> 200,
     swing |-> 0, click |-> TRUE, noise |-> TRUE],
    [name |-> "Ambient", pattern |-> "half-time", decay |-> 500,
     swing |-> 150, click |-> FALSE, noise |-> FALSE],
    [name |-> "EDM", pattern |-> "four-on-floor", decay |-> 250,
     swing |-> 50, click |-> TRUE, noise |-> TRUE],
    [name |-> "Minimal", pattern |-> "sparse", decay |-> 120,
     swing |-> 200, click |-> TRUE, noise |-> TRUE],
    [name |-> "Dark", pattern |-> "broken", decay |-> 180,
     swing |-> 80, click |-> TRUE, noise |-> TRUE],
    [name |-> "Lo-Fi", pattern |-> "half-time", decay |-> 350,
     swing |-> 250, click |-> TRUE, noise |-> TRUE],
    [name |-> "Dub", pattern |-> "half-time", decay |-> 600,
     swing |-> 180, click |-> TRUE, noise |-> TRUE] }

\* getPattern(type): the 16 steps of a bar, as the steps that are true
getPattern(type) ==
  LET on == CASE type = "four-on-floor" -> {0, 4, 8, 12}
              [] type = "half-time" -> {0, 8}
              [] type = "broken" -> {0, 6, 10, 12}
              [] type = "sparse" -> {0}
              [] type = "driving" -> {0, 2, 4, 8, 10, 12}
              [] OTHER -> {0, 4, 8, 12}
  IN [i \in 0..15 |-> i \in on]

\* SYNTH_PRESETS: noteDuration in hundredths of a step and the number of
\* oscillator layers; getRandomSynthPreset may return null, which is NoPreset
SYNTH_PRESETS ==
  { [name |-> "Warm Pad", noteDuration |-> 120, oscillators |-> 3],
    [name |-> "Soft Pluck", noteDuration |-> 80, oscillators |-> 2],
    [name |-> "Glassy", noteDuration |-> 100, oscillators |-> 3],
    [name |-> "Analog Lead", noteDuration |-> 90, oscillators |-> 3],
    [name |-> "Sub Pulse", noteDuration |-> 70, oscillators |-> 2],
    [name |-> "Shimmer", noteDuration |-> 140, oscillators |-> 3],
    [name |-> "Muted Keys", noteDuration |-> 85, oscillators |-> 3],
    [name |-> "Hollow", noteDuration |-> 100, oscillators |-> 3] }

\* the presets and the tempos of the model
Presets == {p \in SYNTH_PRESETS : p.noteDuration \in {70, 85, 140}} \cup {NoPreset}
SoundBpms == {MinBpm, MaxBpm}
\* the ticks whose callbacks are followed: one bar and the tick after it
SoundTicks == 0..16
\* a timer runs when it is due or a pass period after
TimerLate == {0, Fine(Period)}

\* a transient unit: its sound starts at `start` and has faded to silence
\* at `end`, both on the audio clock; its teardown timer is due at `due`
\* and ran at `ran` (-1 while it is pending)
Unit(kind, start, len, call, delay) ==
  [kind |-> kind, start |-> start, end |-> start + len,
   due |-> call + delay, ran |-> -1]

\* playClick(time, velocity), called at `call`
playClick(time, call) == Unit("click", time, Ms(12), call, Ms(50))

\* playNoiseTransient(time, velocity)
playNoiseTransient(time, call) == Unit("noise", time, Ms(40), call, Ms(100))

\* playGhostKick(time)
playGhostKick(time, call) == Unit("ghost", time, Ms(80), call, Ms(150))

\* cleanupDelay of playKick: (kick.decay + 0.1) * 1000 ms
kickCleanupDelay(k) == Ms(k.decay + 100)

\* playKick(time, velocity) with the kit k
playKick(time, call, k) ==
  {Unit("kick", time, Ms(k.decay), call, kickCleanupDelay(k))}
    \cup (IF k.click THEN {playClick(time, call)} ELSE {})
    \cup (IF k.noise THEN {playNoiseTransient(time, call)} ELSE {})

\* (mutant) the even steps are delayed instead of the odd ones
swingOffset_EvenSteps(k, patternIndex) ==
  IF k.swing > 0 /\ patternIndex % 2 = 0
  THEN (k.swing * Ms(20)) \div 1000 ELSE 0

\* swingOffset of BeatLayer.onTick: kit.swing * 0.02 s at odd steps
swingOffset(k, patternIndex) ==
  IF k.swing > 0 /\ patternIndex % 2 = 1
  THEN (k.swing * Ms(20)) \div 1000 ELSE 0

isGhostPosition(patternIndex) == patternIndex \in {2, 6, 10, 14}

\* BeatLayer.onTick(tick, time) called at `call`: the units it emits;
\* ghost is ghostMod.getNormalized(time) > 0.55
beatOnTick(k, tick, time, call, ghost) ==
  LET patternIndex == tick % 16
      actualTime == time + swingOffset(k, patternIndex)
  IN IF getPattern(k.pattern)[patternIndex] THEN playKick(actualTime, call, k)
     ELSE IF isGhostPosition(patternIndex) /\ ghost
          THEN {playGhostKick(actualTime, call)}
          ELSE {}

\* stepDuration of playNote: 60 / bpm / 4
stepDuration(b) == Fine(tickDuration(b))

\* noteDuration of playNote: stepDuration * preset.noteDuration
noteDuration(b, p) == (stepDuration(b) * p.noteDuration) \div 100

\* (mutant) the teardown of a note is due when the note ends
noteCleanupDelay_NoMargin(D) == D

\* cleanupDelay of playNote: (noteDuration + 0.2) * 1000 ms
noteCleanupDelay(D) == D + Ms(200)

\* playNote(noteOffset, time) with the preset p at the tempo b
playNote(time, call, b, p) ==
  IF p = NoPreset THEN {}
  ELSE {Unit("note", time, noteDuration(b, p), call,
             noteCleanupDelay(noteDuration(b, p)))}

\* the creation path of a note of the preset p
notePath(p) == IF p.oscillators = 1 THEN "note1" ELSE "note2"

\* ArpLayer.onTick(tick, time): note says that the step of the pattern holds
\* a note
arpOnTick(p, b, time, call, note) ==
  IF p = NoPreset THEN {}
  ELSE IF note THEN playNote(time, call, b, p) ELSE {}

\* the time from the pass that announces a tick to the time of the tick:
\* up to the lookahead, and negative when the pass runs late
Leads == {n * Period : n \in -1..4}

\* The Clock announces tick k in the pass that reads the time t when k is
\* within the lookahead of t.
Announced(t, k) ==
  /\ t >= 0
  /\ k <= targetTickAt(t, 0, tickDuration(bpm))

\* a beat layer with one of the kits and an arp layer with a preset or none,
\* listening to a Clock at the tempo of the engine
InitSound ==
  /\ \E b \in SoundBpms : NewClock(b, <<>>)
  /\ NoLater
  /\ NoModulator
  /\ NoTracker
  /\ kit \in DRUM_KITS
  /\ preset \in Presets
  /\ heard = {}
  /\ stick = NoStick
  /\ NoLayer

\* every teardown timer of the last callback has run
AllRan == \A u \in heard : u.ran >= 0

\* a tick callback of `layer` for tick k, called in the pass at time t; the
\* ticks come in order and the passes do not go back in time
TickCalled(layer, t, k, units) ==
  /\ AllRan
  /\ k = stick.tick + 1
  /\ Fine(t) >= stick.call
  /\ Announced(t, k)
  /\ heard' = units
  /\ stick' = [layer |-> layer, tick |-> k,
               time |-> Fine(tickStartTime(0, k, tickDuration(bpm))),
               call |-> Fine(t)]
  /\ UNCHANGED <<kit, preset>>
  /\ UNCHANGED <<clockVars, obsVars, modVars, trackerVars, layerVars, laterVars>>

\* the Clock calls BeatLayer.onTick
BeatOnTick ==
  \E k \in SoundTicks, lead \in Leads, ghost \in BOOLEAN :
    LET time == tickStartTime(0, k, tickDuration(bpm)) IN
    TickCalled("beat", time - lead, k,
               beatOnTick(kit, k, Fine(time), Fine(time - lead), ghost))

\* the Clock calls ArpLayer.onTick
ArpOnTick ==
  \E k \in SoundTicks, lead \in Leads, note \in BOOLEAN :
    LET time == tickStartTime(0, k, tickDuration(bpm)) IN
    TickCalled("arp", time - lead, k,
               arpOnTick(preset, bpm, Fine(time), Fine(time - lead), note))

\* the teardown timer of a unit runs: not before it is due
TeardownRuns ==
  /\ \E u \in heard, late \in TimerLate :
       /\ u.ran < 0
       /\ heard' = (heard \ {u}) \cup {[u EXCEPT !.ran = u.due + late]}
  /\ UNCHANGED <<kit, preset, stick>>
  /\ UNCHANGED <<clockVars, obsVars, modVars, trackerVars, layerVars, laterVars>>

NextSound ==
  \/ BeatOnTick
  \/ ArpOnTick
  \/ TeardownRuns

SpecSound == InitSound /\ [][NextSound]_vars

\* ====================================================== life of a layer
\* times are in fine units; gains in units of 1 / 10000
Sec(n) == n * FineUnits
HalfSec == FineUnits \div 2
LayerKinds == {"pad", "texture", "arp", "beat"}
\* the leads of the passes that announce the first tick of a phrase
PhraseLeads == {-Period, 0, scheduleAhead}
\* the phrases whose boundaries are followed
LastPhrase == 2 * 8
\* stop() calls on one layer: stopLayers may be called again on the layers
\* of a track while the first call is waiting
MaxStops == MaxCalls - 1
\* the time from the last step to a stop() call
StopAfter == {Fine(Period), Sec(1)}

\* the level the constructor fades the master gain in to
steadyGain(kind) ==
  CASE kind = "pad" -> 3500 [] kind = "texture" -> 400
    [] kind = "arp" -> 6000 [] kind = "beat" -> 7000

\* the duration of the constructor's fade-in
fadeInTime(kind) ==
  CASE kind = "pad" -> Sec(4) [] kind = "texture" -> Sec(8)
    [] kind = "arp" -> Sec(6) [] kind = "beat" -> Sec(4)

\* the layers that have an onPhrase handler
hasOnPhrase(kind) == kind \in {"pad", "arp"}

\* (mutant) a mutation may begin at every phrase
mutateAfter_Always(kind) == 1

\* onPhrase: the phraseCount from which a mutation may begin
mutateAfter(kind) == CASE kind = "pad" -> 6 [] kind = "arp" -> 8

\* onPhrase: the level of the fade before the mutation, and its duration
lowGain(kind) == CASE kind = "pad" -> 500 [] kind = "arp" -> 1000
fadeOutTime(kind) == CASE kind = "pad" -> Sec(4) [] kind = "arp" -> Sec(2)

\* (mutant) the mutation timer is set for the duration of the fade
mutateDelay_FadeOnly(kind) == fadeOutTime(kind)

\* onPhrase: the delay of the mutation timer, 4500 ms and 2500 ms
mutateDelay(kind) ==
  CASE kind = "pad" -> Sec(4) + HalfSec [] kind = "arp" -> Sec(2) + HalfSec

\* the mutation timer: the duration of the fade back to the steady level
fadeBackTime(kind) == CASE kind = "pad" -> Sec(4) [] kind = "arp" -> Sec(2)

\* stop(): the duration of the fade to zero
stopFadeTime(kind) ==
  CASE kind = "pad" -> Sec(3) [] kind = "texture" -> Sec(3)
    [] kind = "arp" -> Sec(2) [] kind = "beat" -> Sec(2)

\* the layers whose stop() sets a timer that stops their persistent sources
hasHardStop(kind) == kind \in {"pad", "texture", "beat"}

\* (mutant) the hard stop is set for the end of the fade
hardStopDelay_AtFadeEnd(kind) == stopFadeTime(kind)

\* stop(): the delay of the hard-stop timer, 3500 ms and 2500 ms
hardStopDelay(kind) ==
  CASE kind = "pad" -> Sec(3) + HalfSec [] kind = "texture" -> Sec(3) + HalfSec
    [] kind = "beat" -> Sec(2) + HalfSec

\* (mutant) the handlers of the arp layer run without a preset too
arpRuns_Always(p, isActive) == TRUE

\* the guard of ArpLayer's handlers: they return unless this.preset is set
\* and this.isActive
arpRuns(p, isActive) == p # NoPreset /\ isActive

\* ---- AudioParam: the automation timeline of masterGain.gain
\* an event is put after the events at or before its time
Insert(E, e) ==
  LET k == Cardinality({i \in 1..Len(E) : E[i].t <= e.t})
  IN SubSeq(E, 1, k) \o <<e>> \o SubSeq(E, k + 1, Len(E))
setValueAtTime(E, v, t) == Insert(E, [type |-> "set", v |-> v, t |-> t])
linearRampToValueAtTime(E, v, t) ==
  Insert(E, [type |-> "ramp", v |-> v, t |-> t])

\* gain.value read at time t: the value of the last event at or before t,
\* or on the line to the next event when that is a ramp (rounded down to a
\* gain unit); 0, the gain the node was made with, before the first event
valueAt(E, t) ==
  LET k == Cardinality({i \in 1..Len(E) : E[i].t <= t})
  IN IF k = 0 THEN 0
     ELSE IF k < Len(E) /\ E[k + 1].type = "ramp"
          THEN E[k].v + ((E[k + 1].v - E[k].v) * (t - E[k].t))
                          \div (E[k + 1].t - E[k].t)
          ELSE E[k].v

\* events that all lie more than a pass period before t are kept as the
\* one value they have left the gain at
Settle(E, t) ==
  IF E # <<>> /\ \A i \in 1..Len(E) : E[i].t + Fine(Period) < t
  THEN <<[type |-> "set", v |-> E[Len(E)].v, t |-> 0]>>
  ELSE E

\* try { source.stop() } catch {}: an exception does not leave the callback
absorb_Rethrow(thrown) == thrown

absorb(thrown) == FALSE

\* ---- timers
Timer(kind, due, at, time, count, n) ==
  [kind |-> kind, due |-> due, at |-> at, time |-> time, count |-> count,
   n |-> n]

\* no pending timer was due more than a pass period before t
NoOverdue(t) == \A tm \in timers : t <= tm.due + Fine(Period)

\* the step happens at time t
At(t) ==
  /\ t >= ltime
  /\ NoOverdue(t)
  /\ ltime' = t

phraseTime(p) ==
  Fine(tickStartTime(0, p * ticksPerBeat * beatsPerBar * barsPerPhrase,
                     tickDuration(bpm)))

\* new PadLayer(engine), new TextureLayer(engine), new ArpLayer(engine) or
\* new BeatLayer(engine) at time 0, and engine.start() right after
InitLayer ==
  /\ \E b \in SoundBpms : NewClock(b, <<>>)
  /\ NoLater
  /\ NoModulator
  /\ NoTracker
  /\ kit = NoKit /\ heard = {} /\ stick = NoStick
  /\ \E kind \in LayerKinds :
       /\ preset \in (IF kind = "arp"
                      THEN {p \in Presets : p.oscillators <= 2}
                      ELSE {NoPreset})
       /\ lay = [NoLay EXCEPT !.kind = kind,
                              !.isActive = (kind # "arp" \/ preset # NoPreset),
                              !.patterns = IF kind = "arp" /\ preset # NoPreset
                                           THEN 1 ELSE 0]
       /\ gainEv = IF kind = "arp" /\ preset = NoPreset THEN <<>>
                   ELSE linearRampToValueAtTime(setValueAtTime(<<>>, 0, 0),
                                                steadyGain(kind),
                                                fadeInTime(kind))
       /\ srcs = IF kind = "arp" THEN <<>> ELSE <<"started">>
  /\ timers = {}
  /\ ltime = 0
  /\ lev = NoLev

\* the Clock calls onTick(tick, time) for the first tick of the next phrase,
\* in the pass that runs `lead` before the time of the tick.  The arp layer
\* plays a note at the tick when its pattern has one there.
LOnTick ==
  \E lead \in PhraseLeads, note \in BOOLEAN :
    LET p == lay.ticked + 1
        time == phraseTime(p)
        call == time - Fine(lead)
        plays == lay.kind = "arp" /\ arpRuns(preset, lay.isActive) /\ note
        path == notePath(preset)
        D == noteDuration(bpm, preset)
    IN /\ lay.kind # "none" /\ lay.stops = 0
       /\ p <= LastPhrase
       /\ lay.phrased = (IF hasOnPhrase(lay.kind) THEN lay.ticked ELSE -1)
       /\ call >= 0 /\ At(call)
       /\ (lay.kind # "arp" \/ ~arpRuns(preset, lay.isActive)) => ~note
       /\ note => lay.notes < MaxNotes
       /\ lay' = [lay EXCEPT !.ticked = p,
                             !.notes = IF plays THEN @ + 1 ELSE @,
                             !.nset = IF plays THEN @ + 1 ELSE @]
       /\ IF plays
          THEN /\ created' = afterCreate(created, createCount(path))
               /\ timers' = timers \cup
                    {Timer("teardown", call + noteCleanupDelay(D), call, time,
                           cleanupCount(path), lay.nset)}
          ELSE UNCHANGED <<created, timers>>
       /\ lev' = [NoLev EXCEPT !.op = "onTick", !.at = call, !.time = time]
       /\ UNCHANGED <<gainEv, srcs>>
       /\ UNCHANGED <<cleaned, bal, pending, running, tracks, wasReset, nops>>
       /\ UNCHANGED <<clockVars, obsVars, modVars, soundVars, laterVars>>

\* the Clock calls onPhrase(phrase, time), in the pass of the onTick before
\* it; chance is the outcome of the Math.random() test, interval the chord
\* change the pad layer draws
LOnPhrase ==
  \E chance \in BOOLEAN, interval \in {0, 5} :
    LET p == lay.ticked
        time == phraseTime(p)
        runs == lay.kind = "pad" \/ arpRuns(preset, lay.isActive)
        count == lay.phraseCount + 1
        mutates == runs /\ count >= mutateAfter(lay.kind) /\ chance
        begins == mutates /\ (lay.kind = "pad" => interval # 0)
        E0 == Settle(gainEv, ltime)
    IN /\ hasOnPhrase(lay.kind) /\ lay.stops = 0
       /\ lay.phrased < lay.ticked
       /\ At(ltime)
       /\ (lay.kind = "arp" \/ ~mutates) => interval = 0
       /\ (~runs \/ count < mutateAfter(lay.kind)) => ~chance
       /\ lay' = [lay EXCEPT !.phrased = p,
                             !.phraseCount = IF ~runs THEN @
                                             ELSE IF mutates THEN 0 ELSE count,
                             !.nset = IF begins THEN @ + 1 ELSE @]
       /\ gainEv' = IF begins
                    THEN linearRampToValueAtTime(
                           setValueAtTime(E0, valueAt(E0, ltime), time),
                           lowGain(lay.kind), time + fadeOutTime(lay.kind))
                    ELSE gainEv
       /\ timers' = IF begins
                    THEN timers \cup
                           {Timer("mutate", ltime + mutateDelay(lay.kind),
                                  ltime, time, 0, lay.nset)}
                    ELSE timers
       /\ lev' = [NoLev EXCEPT !.op = "onPhrase", !.at = ltime,
                               !.time = time, !.began = begins]
       /\ UNCHANGED srcs
       /\ UNCHANGED <<trackerVars, clockVars, obsVars, modVars, soundVars, laterVars>>

\* layer.stop() is called, by stopLayers, which stops the engine and its
\* Clock in the same turn: no callback of the Clock follows
LStop ==
  \E d \in StopAfter :
    LET t == ltime + d
        E0 == Settle(gainEv, t)
    IN /\ lay.kind # "none" /\ lay.stops < MaxStops
       /\ lay.phrased = (IF hasOnPhrase(lay.kind) THEN lay.ticked ELSE -1)
       /\ At(t)
       /\ gainEv' = linearRampToValueAtTime(
                      setValueAtTime(E0, valueAt(E0, t), t),
                      0, t + stopFadeTime(lay.kind))
       /\ timers' = IF hasHardStop(lay.kind)
                    THEN timers \cup
                           {Timer("hardstop", t + hardStopDelay(lay.kind),
                                  t, t, 0, lay.nset)}
                    ELSE timers
       /\ lay' = [lay EXCEPT !.stops = @ + 1,
                             !.nset = IF hasHardStop(lay.kind) THEN @ + 1 ELSE @]
       /\ lev' = [NoLev EXCEPT !.op = "stop", !.at = t, !.time = t]
       /\ UNCHANGED srcs
       /\ UNCHANGED <<trackerVars, clockVars, obsVars, modVars, soundVars, laterVars>>

\* a timer runs, when it is due or a pass period after
TimerAt(tm, t) ==
  /\ tm \in timers
  /\ t - tm.due \in TimerLate
  /\ t >= ltime
  /\ \A o \in timers \ {tm} : t <= o.due + Fine(Period)
  /\ ltime' = t
  /\ timers' = timers \ {tm}

\* the timer of a phrase mutation runs.  Pad: buildChord and
\* startOscillators, which stops the oscillators of this.oscillators and
\* starts new ones; arp: generatePattern.  Then the gain is set to the low
\* level and ramped back.
MutateRuns ==
  \E tm \in timers : \E t \in {tm.due + l : l \in TimerLate} :
    LET E0 == Settle(gainEv, t)
    IN /\ tm.kind = "mutate"
       /\ TimerAt(tm, t)
       /\ srcs' = IF lay.kind = "pad"
                  THEN Append([srcs EXCEPT ![Len(srcs)] = "stopped"], "started")
                  ELSE srcs
       /\ lay' = [lay EXCEPT !.patterns = IF lay.kind = "arp"
                                             /\ preset # NoPreset
                                          THEN @ + 1 ELSE @]
       /\ gainEv' = linearRampToValueAtTime(
                      setValueAtTime(E0, lowGain(lay.kind), t),
                      steadyGain(lay.kind), t + fadeBackTime(lay.kind))
       /\ lev' = [NoLev EXCEPT !.op = "mutate", !.at = t, !.time = tm.time]
       /\ UNCHANGED <<trackerVars, clockVars, obsVars, modVars, soundVars, laterVars>>

\* the hard-stop timer of a stop() call runs: stop() is called on the
\* sources the layer's fields refer to, inside try / catch.  stop() on a
\* source that is not playing may throw.
HardStopRuns ==
  \E tm \in timers : \E t \in {tm.due + l : l \in TimerLate}, thrown \in BOOLEAN :
    LET found == srcs[Len(srcs)]
    IN /\ tm.kind = "hardstop"
       /\ TimerAt(tm, t)
       /\ found = "started" => ~thrown
       /\ srcs' = [srcs EXCEPT ![Len(srcs)] = "stopped"]
       /\ lev' = [NoLev EXCEPT !.op = "hardstop", !.at = t, !.time = tm.at,
                               !.found = found, !.threw = absorb(thrown)]
       /\ UNCHANGED <<lay, gainEv>>
       /\ UNCHANGED <<trackerVars, clockVars, obsVars, modVars, soundVars, laterVars>>

\* the teardown timer of a note runs
NoteTeardownRuns ==
  \E tm \in timers : \E t \in {tm.due + l : l \in TimerLate} :
    /\ tm.kind = "teardown"
    /\ TimerAt(tm, t)
    /\ cleaned' = afterCleanup(cleaned, tm.count)
    /\ lev' = [NoLev EXCEPT !.op = "teardown", !.at = t, !.time = tm.time]
    /\ UNCHANGED <<lay, gainEv, srcs>>
    /\ UNCHANGED <<created, bal, pending, running, tracks, wasReset, nops>>
    /\ UNCHANGED <<clockVars, obsVars, modVars, soundVars, laterVars>>

NextLayer ==
  \/ LOnTick
  \/ LOnPhrase
  \/ LStop
  \/ MutateRuns
  \/ HardStopRuns
  \/ NoteTeardownRuns

SpecLayer == InitLayer /\ [][NextLayer]_vars

\* ======================================================= tonal centre
\* roots and scales of a track
Roots == {36, 38, 48, 55, 58, 60}
Scales == {<<0, 3, 5, 7, 10>>, <<0, 2, 3, 5, 7, 9, 10>>}
\* the intervals of a chord change that set the timer
ChordIntervals == {5, 7, -5}

\* Math.max(36, Math.min(60, newRoot))
tempRoot(root, interval) == Max(36, Min(60, root + interval))

\* PadLayer.buildChord: root, scale[2], scale[min(4, length - 1)], octave
buildChord(root, scale) ==
  <<root, root + scale[3], root + scale[Min(5, Len(scale))], root + 12>>

\* (mutant) the root is not restored after the chord is built
restoredRoot_Kept(oldRoot, temp) == temp

\* state.root = oldRoot
restoredRoot(oldRoot, temp) == oldRoot

\* new Engine(config) and new PadLayer(engine), whose constructor builds
\* the first chord
InitChord ==
  /\ NewClock(MaxBpm, <<>>)
  /\ NoModulator /\ NoTracker /\ NoSound /\ NoLayer /\ NoBank /\ NoCli
  /\ state \in [root : Roots, scale : Scales]
  /\ currentChord = buildChord(state.root, state.scale)
  /\ cev = [NoCev EXCEPT !.orig = state.root]
  /\ cops = 0

ChordStep ==
  /\ cops < MaxOps
  /\ cops' = cops + 1
  /\ UNCHANGED <<clockVars, obsVars, modVars, trackerVars, soundVars,
                 layerVars, bankVars, cliVars>>

\* the timer of the pad's chord change runs, from its first statement to
\* its last: the root is replaced, the chord is built from it (and the
\* oscillators started), and the root is put back
ChordChange ==
  /\ ChordStep
  /\ \E interval \in ChordIntervals :
       LET oldRoot == state.root
           temp == tempRoot(state.root, interval)
       IN /\ currentChord' = buildChord(temp, state.scale)
          /\ state' = [state EXCEPT !.root = restoredRoot(oldRoot, temp)]
          /\ cev' = [cev EXCEPT !.op = "change", !.temp = temp,
                                !.read = oldRoot]

\* a callback that reads state.root
ReadsRoot(op) ==
  /\ ChordStep
  /\ cev' = [cev EXCEPT !.op = op, !.read = state.root]
  /\ UNCHANGED <<state, currentChord>>

\* ArpLayer.playNote, called from onTick: baseNote = state.root + 24 + ...
ArpReadsRoot == ReadsRoot("note")

\* printTrackInfo, from its timer
ShowReadsRoot == ReadsRoot("show")

NextChord ==
  \/ ChordChange
  \/ ArpReadsRoot
  \/ ShowReadsRoot

SpecChord == InitChord /\ [][NextChord]_vars

\* ============================================= Modulators and their caller
Mods == {"m1", "m2"}
\* the configuration objects the caller makes and passes to the constructors
CfgIds == {1, 1 + 1}
Configs == [base : Bases, range : Ranges, speed : Speeds]
\* two noise functions with values in [-1, 1]
BankNoise ==
  {[x \in NoisePoints |-> NoiseScale],
   [x \in NoisePoints |-> IF x = 0 THEN 1 ELSE -NoiseScale]}

\* this.config of Modulator m: the object the constructor was given
configOf(m) == objs[mcfg[m]]

\* m.getValue(time), in units of 1 / NoiseScale
getValueOf(m, time) ==
  NoiseScale * configOf(m).base
    + mnoise[m][time * configOf(m).speed] * configOf(m).range

\* the caller makes its configuration objects and calls new Modulator(cfg)
\* for each Modulator, with one object for both or with one each
InitBank ==
  /\ NewClock(MaxBpm, <<>>)
  /\ NoModulator /\ NoTracker /\ NoSound /\ NoLayer /\ NoChord /\ NoCli
  /\ objs \in [CfgIds -> {c \in Configs : c.base = 0}]
  /\ mcfg \in [Mods -> CfgIds]
  /\ mnoise \in [Mods -> BankNoise]
  /\ bev = NoBev

BankStep ==
  UNCHANGED <<clockVars, obsVars, modVars, trackerVars, soundVars, layerVars,
              chordVars, cliVars>>

\* m.getValue(t)
BankGetValue ==
  /\ \E m \in Mods, t \in Times :
       bev' = [op |-> "getValue", mod |-> m, t |-> t, val |-> getValueOf(m, t)]
  /\ UNCHANGED <<objs, mcfg, mnoise>>
  /\ BankStep

\* m.setBase(b): this.config.base = b
BankSetBase ==
  /\ \E m \in Mods, b \in Bases :
       /\ objs' = [objs EXCEPT ![mcfg[m]].base = b]
       /\ bev' = [op |-> "setBase", mod |-> m, t |-> 0, val |-> b]
  /\ UNCHANGED <<mcfg, mnoise>>
  /\ BankStep

\* m.setRange(r): this.config.range = r
BankSetRange ==
  /\ \E m \in Mods, r \in Ranges :
       /\ objs' = [objs EXCEPT ![mcfg[m]].range = r]
       /\ bev' = [op |-> "setRange", mod |-> m, t |-> 0, val |-> r]
  /\ UNCHANGED <<mcfg, mnoise>>
  /\ BankStep

\* m.setSpeed(sp): this.config.speed = sp
BankSetSpeed ==
  /\ \E m \in Mods, sp \in Speeds :
       /\ objs' = [objs EXCEPT ![mcfg[m]].speed = sp]
       /\ bev' = [op |-> "setSpeed", mod |-> m, t |-> 0, val |-> sp]
  /\ UNCHANGED <<mcfg, mnoise>>
  /\ BankStep

NextBank ==
  \/ BankGetValue
  \/ BankSetBase
  \/ BankSetRange
  \/ BankSetSpeed

SpecBank == InitBank /\ [][NextBank]_vars

\* ================================================== simple-mode player
\* times are in fine units.  The progress interval fires every second; the
\* seconds of a track in which nothing else happens are passed over in one
\* step (QuietSeconds).
MIN_TRACK_LENGTH == 8 * 60
\* getRandomTrackLength(), in seconds: its least value
trackLength == MIN_TRACK_LENGTH
\* setTimeout(resolve, 2500) of stopLayers
StopWait == Sec(2) + HalfSec
\* setInterval(..., 1000)
ProgressPeriod == Sec(1)
\* the time from the last step to a key press
KeyAfter == {HalfSec, Sec(1)}
\* tracks made in one run
MaxTracks == MaxCalls + 2

\* createLayers(config) at time t: a new Engine and its four layers, started
NewTrack(t) == [born |-> t, stops |-> 0, stopAt |-> -1]

\* elapsed = Math.floor((Date.now() - startTime) / 1000) at time t
elapsedAt(t) == (t - trackStart) \div FineUnits

\* the first firing of the progress interval that finds the track ended
endTick ==
  ((trackStart + Sec(trackLength) + ProgressPeriod - 1) \div ProgressPeriod)
    * ProgressPeriod

\* main(): the first track is made, the intervals and handlers are set
InitCli ==
  /\ NewClock(MaxBpm, <<>>)
  /\ NoModulator /\ NoTracker /\ NoSound /\ NoLayer /\ NoChord /\ NoBank
  /\ made = <<NewTrack(0)>>
  /\ layers = 1
  /\ isQuitting = FALSE
  /\ trackStart = 0
  /\ waits = {}
  /\ nextProgress = ProgressPeriod
  /\ ctime = 0
  /\ pev = NoPev
  /\ presses = 0

\* the step happens at time t: no timer is overdue, the process has not
\* exited
CliAt(t) ==
  /\ pev.op # "exit"
  /\ t >= ctime
  /\ \A w \in waits : t <= w.due
  /\ nextProgress >= 0 => t <= nextProgress
  /\ ctime' = t
  /\ UNCHANGED <<clockVars, obsVars, modVars, trackerVars, soundVars,
                 layerVars, chordVars, bankVars>>

\* stopLayers(layers) called at time t by `who`: stop() of the four layers
\* and of the engine, and the promise that resolves 2500 ms later
stopLayers(who, t) ==
  /\ made' = [made EXCEPT ![layers].stops = @ + 1,
                          ![layers].stopAt = IF @ < 0 THEN t ELSE @]
  /\ waits' = waits \cup {[who |-> who, due |-> t + StopWait, at |-> t,
                           track |-> layers]}

\* handleNext() up to its await
handleNext(t) ==
  /\ ~isQuitting
  /\ stopLayers("next", t)
  /\ pev' = [op |-> "next", track |-> layers, stopped |-> t]
  /\ UNCHANGED <<layers, isQuitting, trackStart>>

\* the key n or space is pressed
PressNext ==
  \E d \in KeyAfter :
    /\ CliAt(ctime + d)
    /\ presses < MaxCalls
    /\ presses' = presses + 1
    /\ handleNext(ctime + d)
    /\ UNCHANGED nextProgress

\* the key q is pressed, or SIGINT or SIGTERM arrives: handleQuit() up to
\* its await
PressQuit ==
  \E d \in KeyAfter :
    /\ CliAt(ctime + d)
    /\ presses < MaxCalls
    /\ presses' = presses + 1
    /\ ~isQuitting
    /\ isQuitting' = TRUE
    /\ nextProgress' = -1
    /\ stopLayers("quit", ctime + d)
    /\ pev' = [op |-> "quit", track |-> layers, stopped |-> ctime + d]
    /\ UNCHANGED <<layers, trackStart>>

\* progressInterval fires while a switch is pending or the track has ended
ProgressTick ==
  /\ nextProgress >= 0
  /\ waits # {} \/ nextProgress >= endTick
  /\ CliAt(nextProgress)
  /\ nextProgress' = nextProgress + ProgressPeriod
  /\ IF ~isQuitting /\ elapsedAt(nextProgress) >= trackLength
     THEN handleNext(nextProgress)
     ELSE /\ pev' = [NoPev EXCEPT !.op = "progress"]
          /\ UNCHANGED <<made, layers, isQuitting, trackStart, waits>>
  /\ UNCHANGED presses

\* the firings of progressInterval up to the last one before the track ends
QuietSeconds ==
  /\ nextProgress >= 0 /\ waits = {}
  /\ nextProgress < endTick
  /\ pev.op # "exit"
  /\ ctime' = endTick - ProgressPeriod
  /\ UNCHANGED <<clockVars, obsVars, modVars, trackerVars, soundVars,
                 layerVars, chordVars, bankVars>>
  /\ nextProgress' = endTick
  /\ pev' = [NoPev EXCEPT !.op = "progress"]
  /\ UNCHANGED <<made, layers, isQuitting, trackStart, waits, presses>>

\* the promise a handleNext() awaits resolves: createLayers, and the new
\* track's length and start time are stored
NextResumes ==
  \E w \in waits :
    /\ w.who = "next"
    /\ CliAt(w.due)
    /\ Len(made) < MaxTracks
    /\ waits' = waits \ {w}
    /\ made' = Append(made, NewTrack(w.due))
    /\ layers' = Len(made) + 1
    /\ trackStart' = w.due
    /\ pev' = [op |-> "created", track |-> w.track, stopped |-> w.at]
    /\ UNCHANGED <<isQuitting, nextProgress, presses>>

\* the promise handleQuit() awaits resolves: process.exit(0)
QuitResumes ==
  \E w \in waits :
    /\ w.who = "quit"
    /\ CliAt(w.due)
    /\ waits' = {}
    /\ pev' = [op |-> "exit", track |-> w.track, stopped |-> w.at]
    /\ UNCHANGED <<made, layers, isQuitting, trackStart, nextProgress,
                   presses>>

NextCli ==
  \/ PressNext
  \/ PressQuit
  \/ ProgressTick
  \/ QuietSeconds
  \/ NextResumes
  \/ QuitResumes

SpecCli == InitCli /\ [][NextCli]_vars

\* ================================================================ claims
\* The scenarios the claims speak of, read off the session record.
\* One session at one tempo: the timer of this start() is the only one set
\* and setBpm has not changed the tempo since start().
Steady == sess.started /\ ~sess.overlap /\ ~sess.bpmChanged
Count(L, x) == Cardinality({k \in 1..Len(L) : L[k] = x})
\* every listener is subscribed once, and nobody has subscribed or
\* unsubscribed since start()
SameSubs == ~sess.subsChanged /\ \A x \in Listeners : Count(listeners, x) <= 1
SteadySubs == Steady /\ SameSubs

Delivered == ev # NoEv

\* the claims' own reading of the four callbacks
Rank(kind) ==
  CASE kind = "tick" -> 0 [] kind = "beat" -> 1 [] kind = "bar" -> 2
    [] kind = "phrase" -> 3 [] OTHER -> -1
Due(kind, t) ==
  CASE kind = "tick" -> TRUE
    [] kind = "beat" -> t % 4 = 0
    [] kind = "bar" -> t % 16 = 0
    [] kind = "phrase" -> t % 64 = 0
    [] OTHER -> FALSE
Arg(kind, t) ==
  CASE kind = "tick" -> t
    [] kind = "beat" -> t \div 4
    [] kind = "bar" -> t \div 16
    [] kind = "phrase" -> t \div 64
    [] OTHER -> -1
Succ(kind) ==
  CASE kind = "tick" -> "beat" [] kind = "beat" -> "bar"
    [] kind = "bar" -> "phrase" [] OTHER -> "none"
\* e is the last callback a listener is due in the fan-out of its tick
Final(e) == e.kind = "phrase" \/ ~Due(Succ(e.kind), e.tick)

\* C1: in one start() session at one tempo, whatever the timing of the
\* passes, the indices a listener's onTick receives are 0, 1, 2, ...: each
\* is the one before plus 1.
C1_TicksConsecutive ==
  [][(Delivered' /\ ev'.kind = "tick" /\ SteadySubs')
       => ev'.n = sess.lastTick[ev'.l] + 1]_vars

\* a pass that ran a second late and fires many ticks at once, in its middle
C1_Witness ==
  /\ SteadySubs /\ Delivered /\ ev.kind = "tick" /\ ev.n >= 20
  /\ pc = "firing" /\ frame.targetTick >= ev.n + 5
  /\ Len(listeners) = 2

\* C2: when setBpm is called between passes of one session (begun at a
\* tempo in 60..140, the only timer set, its listeners unchanged), the indices a
\* listener's onTick receives still go up by exactly 1: none is skipped and
\* none is fired again.
C2_TicksConsecutiveAcrossSetBpm ==
  [][(Delivered' /\ ev'.kind = "tick"
        /\ sess'.started /\ ~sess'.overlap /\ SameSubs'
        /\ sess'.bpmAtStart \in 60..140)
       => ev'.n = sess.lastTick[ev'.l] + 1]_vars

\* C3: a listener visited at tick t gets onTick(t); onBeat iff t mod 4 = 0,
\* with floor(t/4); onBar iff t mod 16 = 0, with floor(t/16); onPhrase iff
\* t mod 64 = 0, with floor(t/64); all with the time of its onTick; and a
\* fan-out whose array nobody changed visits every subscribed listener.
C3_Step ==
  /\ Delivered' =>
       /\ Due(ev'.kind, ev'.tick)
       /\ ev'.n = Arg(ev'.kind, ev'.tick)
       /\ IF ev'.kind = "tick"
          THEN last = NoEv \/ Final(last)
          ELSE /\ last.l = ev'.l /\ last.tick = ev'.tick
               /\ last.time = ev'.time
               /\ ev'.kind = Succ(last.kind)
  /\ (pc' = "idle" /\ last' # NoEv) => Final(last')
  /\ (fanDone' # NoFan /\ ~fanDone'.changed) =>
       \A x \in Listeners : fanDone'.got[x] = Count(fanDone'.snap, x)
C3_CallbacksOfATick == [][C3_Step]_vars

\* the second phrase begins: onPhrase(1) at tick 64
C3_Witness == Delivered /\ ev.kind = "phrase" /\ ev.n = 1 /\ ev.tick = 64

C5_IdealTimes ==
  [][(Delivered' /\ ~sess'.bpmChanged) =>
       /\ ev'.time * bpm = startTime * bpm + ev'.tick * 15 * UnitsPerSecond
       /\ (last # NoEv /\ last.tick < ev'.tick) => last.time < ev'.time]_vars

\* a tick fired in the middle of a pass that ran after its ideal time
C5_Witness ==
  /\ Steady /\ Delivered /\ ev.tick >= 3 /\ startTime > 0
  /\ now > ev.time /\ pc = "firing" /\ frame.targetTick >= ev.tick + 3

\* C6: after any sequence of start(), stop(), subscribe(), unsubscribe() and
\* setBpm() calls, once stop() has returned to the host no scheduling pass
\* delivers a callback until start() is called again.
C6_SilentAfterStop ==
  [][(sess.stops > 0 /\ pc = "idle" /\ starts' = starts) => pc' = "idle"]_vars

\* C7: when a callback of tick n subscribes or unsubscribes, every listener
\* that was subscribed when the fan-out of tick n began and has not been
\* removed gets onTick(n) exactly once in that fan-out.
C7_FanOutComplete ==
  fanDone # NoFan =>
    \A x \in Range(fanDone.snap) \ fanDone.removed :
      fanDone.got[x] = Count(fanDone.snap, x)

\* C8: every start(), the first or a restart, stores the time it read in
\* startTime, resets the counters to 0 and runs a pass at once that calls
\* onTick(0), onBeat(0), onBar(0) and onPhrase(0) with time = startTime,
\* however far the session before had advanced.
C8_Step ==
  /\ starts' = starts + 1 =>
       /\ startTime' = now'
       /\ IF listeners = <<>>
          THEN pc' = "idle" /\ currentTick' >= 0
          ELSE /\ pc' = "firing"
               /\ frame'.tick = 0 /\ frame'.stage = "tick"
               /\ frame'.l = listeners[1]
               /\ currentTick' = 0 /\ currentBeat' = 0
               /\ currentBar' = 0 /\ currentPhrase' = 0
  /\ (Delivered' /\ ev'.tick = 0) =>
       /\ ev'.n = 0
       /\ ev'.time = startTime
       /\ ev'.kind # "phrase" =>
            /\ pc' = "firing" /\ frame'.tick = 0 /\ frame'.l = ev'.l
            /\ frame'.stage = Succ(ev'.kind)
C8_StartFiresTickZero == [][C8_Step]_vars

\* a restart after stop(), later than a first session that had advanced, has
\* delivered onPhrase(0) at the new startTime
C8_Witness ==
  /\ starts = 2 /\ intervals = {2} /\ lastScheduledTick[1] >= 2 /\ startTime > 0
  /\ Delivered /\ ev.kind = "phrase" /\ ev.n = 0 /\ ev.time = startTime

\* C9: stop() on a Clock that is not running (stopped already, or never
\* started) changes nothing of the Clock and delivers no callback.
C9_StopIdempotent ==
  [][(Stop /\ intervalId = 0) => (UNCHANGED clockVars /\ ~Delivered')]_vars

\* stop() has returned twice in a row after a start()
C9_Witness ==
  sess.started /\ sess.stops = 2 /\ calls = 3 /\ starts = 1 /\ pc = "idle"

\* C10: bpm is in [60, 140] in every reachable state, the state right after
\* construction included.
C10_BpmInRange == bpm \in 60..140

\* C11: after setBpm(x), getBpm() returns min(140, max(60, x)): 140 for x
\* above 140, 60 for x below 60, and x itself for x in 60..140.
C11_SetBpmClamps ==
  [][\A x \in BpmArgs :
       SetBpmTo(x) =>
         getBpm' = (IF x > 140 THEN 140 ELSE IF x < 60 THEN 60 ELSE x)]_vars

\* setBpm(10) has returned in a running session: the tempo is 60
C11_Witness == getBpm = 60 /\ sess.started /\ sess.bpmChanged /\ pc = "idle"

\* C12: in every reachable state (before start, between passes, during
\* callbacks, after stop, after a restart) the position getPosition() returns
\* has beat = floor(tick/4), bar = floor(beat/4), phrase = floor(bar/4).
C12_PositionDerivable ==
  LET p == getPosition
  IN  /\ p.beat = p.tick \div 4
      /\ p.bar = p.beat \div 4
      /\ p.phrase = p.bar \div 4

\* a restarted session has stored the position of tick 4, the second beat
C12_Witness ==
  /\ starts = 2 /\ getPosition.tick = 4 /\ getPosition.beat = 1
  /\ lastScheduledTick[1] >= 1

\* C13: a tick is announced at most 0.1 s ahead: when a callback is
\* delivered its time is at most the time the pass read plus 0.1 s.
C13_WithinLookahead ==
  Delivered => 10 * ev.time <= 10 * now + UnitsPerSecond

\* a tick other than tick 0 announced ahead of the time the pass read, after
\* the tempo was changed
C13_Witness ==
  /\ Delivered /\ ev.tick > 0 /\ ev.time > now /\ sess.bpmChanged

\* C14: in a running session at one tempo whose passes are never more than
\* 100 ms apart, no callback is delivered by a pass that runs after the
\* tick's ideal time, and every listener eventually gets every tick up to the
\* last one the observed time allows.
HorizonTick ==
  LET slowest == CHOOSE b \in CtorBpms : \A c \in CtorBpms : b <= c
  IN  (MaxPeriods * Period - Grid) \div tickDuration(slowest)
C14_TimelyDelivery ==
  /\ [](Delivered => now <= ev.time)
  /\ sess.started ~> (\A x \in Range(listeners) : sess.lastTick[x] >= HorizonTick)

\* the last tick of the horizon is delivered ahead of its ideal time
C14_Witness ==
  /\ Delivered /\ ev.kind = "tick" /\ ev.n = HorizonTick /\ now < ev.time
  /\ Len(listeners) = 2

\* C15: a listener gets the onTick of a tick at most once in the fan-out of
\* that tick, however many times subscribe() was called with it.
C15_AtMostOncePerTick ==
  fanDone # NoFan => \A x \in Listeners : fanDone.got[x] <= 1

\* C16: the value getValue returns lies in [base - range, base + range],
\* for every configuration the constructor and the setters can produce, a
\* negative or zero range included.
C16_ValueInRange ==
  mret.fn = "getValue" =>
    /\ NoiseScale * (config.base - config.range) <= mret.val
    /\ mret.val <= NoiseScale * (config.base + config.range)

C18_MatchedMeansNoneActive ==
  (\A n \in Counts : bal[n] = 0) =>
    /\ getActive = 0
    /\ getStats.created = getStats.cleaned

\* create(1), create(2), create(6) and their three cleanups have been called
C18_Witness ==
  /\ \A n \in Counts : bal[n] = 0
  /\ ~wasReset /\ nops = 6 /\ getStats.created = 1 + 2 + 6

\* C19: created and cleaned never decrease except by reset(), which sets
\* both to 0; getStats().active = created - cleaned = getActive(); no layer
\* operation and no track switch resets or decreases them.
C19_Step ==
  /\ (created' < created \/ cleaned' < cleaned) =>
       (Reset /\ created' = 0 /\ cleaned' = 0)
  /\ (CreateLayers \/ StopLayers) => (created' = created /\ cleaned' = cleaned)
  /\ getStats'.active = getStats'.created - getStats'.cleaned
  /\ getStats'.active = getActive'
  /\ getStats'.created = created' /\ getStats'.cleaned = cleaned'
C19_TotalsMonotonic == [][C19_Step]_vars

\* the second track is playing and the totals of the first are still there
C19_Witness ==
  /\ tracks = 2 /\ running /\ ~wasReset
  /\ created >= 8 /\ cleaned >= 2 /\ created > cleaned

\* C20: every creation path calls create(n) once and sets one teardown that
\* calls cleanup with the same n; stopping does not cancel teardowns; so when
\* the layers are stopped and every pending teardown has fired, getActive()
\* is 0.
PendingNodes == SumOver([p \in Paths |-> pending[p] * createCount(p)], Paths)
C20_Step ==
  /\ StopLayers => pending' = pending
  /\ ~wasReset' => getActive' = PendingNodes'
  /\ (~wasReset' /\ ~running' /\ \A p \in Paths : pending'[p] = 0) => getActive' = 0
C20_TeardownsBalance == [][C20_Step]_vars

\* a kick with click and noise transient and an arp note were played, the
\* layers were stopped, and then the four teardowns fired
C20_Witness ==
  /\ ~running /\ tracks = 1 /\ ~wasReset
  /\ \A p \in Paths : pending[p] = 0
  /\ created = 2 + 2 + 6 + 6 /\ getActive = 0

\* a unit's teardown has run, and it ran after the unit's sound had ended
TornDown(u) == u.ran >= 0
AfterEnd(u) == u.ran > u.end

\* C21: the teardown of a kick scheduled at T with kit decay d runs strictly
\* later than T + d, for every lead up to the lookahead with which the Clock
\* announces the tick.
C21_KickTeardownAfterDecay ==
  \A u \in heard : (u.kind = "kick" /\ TornDown(u)) => AfterEnd(u)

\* C22: the teardown of a click, a noise transient and a ghost kick scheduled
\* at T runs strictly after the unit's audible end, T + 12 ms, T + 40 ms and
\* T + 80 ms, for every lead the lookahead allows.
C22_TransientTeardownAfterEnd ==
  \A u \in heard :
    (u.kind \in {"click", "noise", "ghost"} /\ TornDown(u)) => AfterEnd(u)

\* C23: the teardown of an arp note scheduled at T with note duration D runs
\* strictly after T + D, for every lead the lookahead allows.
C23_NoteTeardownAfterEnd ==
  \A u \in heard : (u.kind = "note" /\ TornDown(u)) => AfterEnd(u)

\* a note announced with the full lookahead, and its teardown ran on time
C23_Witness ==
  /\ stick.layer = "arp" /\ stick.time - stick.call = Fine(scheduleAhead)
  /\ \E u \in heard : u.kind = "note" /\ u.ran = u.due /\ u.start = stick.time

\* the events of an automation timeline, and the steps the claims speak of
Events(E) == {E[i] : i \in 1..Len(E)}
SetEv(v, t) == [type |-> "set", v |-> v, t |-> t]
RampEv(v, t) == [type |-> "ramp", v |-> v, t |-> t]
StopCalled == lay'.stops = lay.stops + 1
HardStopRan == lev'.op = "hardstop" /\ timers' # timers
MutationTimers == {tm \in timers : tm.kind = "mutate"}

\* C24: once stop() has been called on a layer, no later step ramps its
\* master gain up again, rebuilds its pattern or chord, or starts new
\* persistent sources; in particular not a mutation timer that was set
\* before stop().
C24_Step ==
  lay.stops > 0 =>
    /\ \A e \in Events(gainEv') :
         (e.type = "ramp" /\ e.v > 0) => e \in Events(gainEv)
    /\ lay'.patterns = lay.patterns
    /\ \A i \in 1..Len(srcs') :
         srcs'[i] = "started" => (i <= Len(srcs) /\ srcs[i] = "started")
C24_StoppedIsTerminal == [][C24_Step]_vars

\* C25: stop() sets the gain to its current value at the time of the call,
\* ramps it linearly to zero over a fixed duration (pad and texture 3 s, arp
\* and beat 2 s) and sets the hard stop of the persistent sources for
\* strictly after the end of that ramp (pad and texture 3.5 s, beat 2.5 s);
\* the hard stop runs strictly after the end of the ramp.
C25_Fade ==
  [pad |-> 3 * FineUnits, texture |-> 3 * FineUnits, arp |-> 2 * FineUnits,
   beat |-> 2 * FineUnits]
C25_Hard ==
  [pad |-> (7 * FineUnits) \div 2, texture |-> (7 * FineUnits) \div 2,
   beat |-> (5 * FineUnits) \div 2]
C25_Step ==
  /\ StopCalled =>
       /\ SetEv(valueAt(gainEv, ltime'), ltime') \in Events(gainEv')
       /\ RampEv(0, ltime' + C25_Fade[lay.kind]) \in Events(gainEv')
       /\ lay.kind \in {"pad", "texture", "beat"} =>
            \E tm \in timers' \ timers :
              /\ tm.kind = "hardstop"
              /\ tm.due = ltime' + C25_Hard[lay.kind]
              /\ tm.due > ltime' + C25_Fade[lay.kind]
       /\ lay.kind = "arp" => timers' = timers
  /\ HardStopRan => ltime' > lev'.time + C25_Fade[lay.kind]
C25_HardStopAfterFade == [][C25_Step]_vars

\* a beat layer was stopped after its second phrase began, and its hard stop
\* ran 2.5 s after the call, when the gain had been at zero for half a second
C25_Witness ==
  /\ lay.kind = "beat" /\ lay.ticked >= 1 /\ lay.stops = 1
  /\ lev.op = "hardstop" /\ lev.at = lev.time + Sec(2) + HalfSec
  /\ valueAt(gainEv, lev.at - HalfSec) = 0

\* C26: when the hard-stop callback runs on a source that is not playing any
\* more (already stopped, as after a second stop() on the layer), no
\* exception leaves the callback and nothing else changes.
C26_Step ==
  HardStopRan =>
    /\ ~lev'.threw
    /\ lev'.found # "started" =>
         /\ UNCHANGED <<srcs, lay, gainEv, created, cleaned>>
         /\ timers' \subseteq timers
C26_HardStopAbsorbs == [][C26_Step]_vars

\* stop() was called twice on a layer, and the second hard stop found the
\* source stopped by the first
C26_Witness ==
  /\ lay.stops = 2 /\ lev.op = "hardstop" /\ lev.found = "stopped"
  /\ timers = {}

C28_Fade == [pad |-> 4 * FineUnits, arp |-> 2 * FineUnits]
C28_MutationAfterFadeOut ==
  lev.op = "mutate" =>
    /\ lev.at > lev.time + C28_Fade[lay.kind]
    /\ lay.stops = 0 => gainEv[1] = SetEv(lowGain(lay.kind), 0)

\* a pad's phrase was announced with the full lookahead and its mutation
\* timer ran on time, 4.5 s after the call
C28_Witness ==
  /\ lay.kind = "pad" /\ lay.stops = 0 /\ lev.op = "mutate"
  /\ lev.at = lev.time - Fine(scheduleAhead) + (9 * FineUnits) \div 2

\* C29: pending teardown callbacks are independent of the order they fire
\* in: any two of them lead to the same state in either order, each
\* teardown takes one pending unit of one path off and adds the count of
\* that unit's creation to cleaned and nothing else, and when none is
\* pending cleaned equals created.
C29_Step ==
  /\ \A p, q \in Paths :
       (p # q /\ pending[p] > 0 /\ pending[q] > 0) =>
         LET a == teardown(pending, cleaned, p)
             b == teardown(pending, cleaned, q)
         IN teardown(a.pending, a.cleaned, q) = teardown(b.pending, b.cleaned, p)
  /\ cleaned' > cleaned =>
       /\ \E p \in Paths :
            /\ pending[p] > 0
            /\ pending' = [pending EXCEPT ![p] = @ - 1]
            /\ cleaned' = cleaned + createCount(p)
       /\ created' = created
  /\ (~wasReset' /\ \A p \in Paths : pending'[p] = 0) => cleaned' = created'
C29_TeardownOrderFree == [][C29_Step]_vars

\* a kick was played with its click and its noise transient, and the kick's
\* teardown, set with the longest delay of the three, has fired first
C29_Witness ==
  /\ ~wasReset /\ created = 2 + 2 + 6 /\ cleaned = 2
  /\ pending = [p \in Paths |-> IF p \in {"click", "noise"} THEN 1 ELSE 0]

\* C30: an arp layer without a preset does nothing in onTick and onPhrase:
\* it creates no unit, sets no timer, leaves the tracker counters and its own
\* fields as they are, and its gain stays 0.
C30_InactiveArpIsInert ==
  (lay.kind = "arp" /\ preset = NoPreset) =>
    /\ created = 0 /\ cleaned = 0
    /\ timers = {}
    /\ lay.phraseCount = 0 /\ lay.notes = 0 /\ lay.patterns = 0
    /\ lay.stops = 0 => gainEv = <<>>
    /\ \A e \in Events(gainEv) : e.v = 0
    /\ valueAt(gainEv, ltime) = 0

\* an arp layer without a preset has got the onPhrase of its ninth phrase
C30_Witness ==
  /\ lay.kind = "arp" /\ preset = NoPreset
  /\ lev.op = "onPhrase" /\ lay.phrased = 8

\* C32: after any sequence of start() and stop() calls on one Clock, start()
\* on a running Clock included, at most one interval timer of the Clock is
\* set.
C32_OneTimer == Cardinality(intervals) <= 1

\* C33: after a stop() made from inside a callback (in a session whose only
\* timer it clears), no callback of a later tick is delivered, the ticks
\* that were already due in the same pass included.
C33_Step ==
  (sess.stops > 0 /\ intervals = {} /\ pc = "firing" /\ Delivered')
    => ev'.tick = last.tick
C33_StopInCallbackIsImmediate == [][C33_Step]_vars

\* C34: within one session (begun at a tempo in 60..140, the only timer
\* set) the times announced go up strictly from one tick fired to the next,
\* also when setBpm changes the tempo between passes.
C34_Step ==
  (Delivered' /\ last # NoEv /\ ev'.tick # last.tick
     /\ sess'.started /\ ~sess'.overlap /\ sess'.bpmAtStart \in 60..140)
    => ev'.time > last.time
C34_TimesIncrease == [][C34_Step]_vars

\* C38: a setBase, setRange or setSpeed call on one Modulator changes no
\* value another Modulator returns, and changes no configuration object the
\* caller passed to a constructor, also when two Modulators were made from
\* one object.
C38_Step ==
  bev'.op \in {"setBase", "setRange", "setSpeed"} =>
    /\ \A n \in Mods \ {bev'.mod}, t \in Times :
         getValueOf(n, t)' = getValueOf(n, t)
    /\ objs' = objs
C38_ModulatorsIndependent == [][C38_Step]_vars

\* C31: the pad's chord-change callback leaves engine.state.root as it was
\* before it ran; the root it installs meanwhile is within 36..60, the new
\* chord is built on it, and every other callback that reads the root gets
\* the root of the track.
C31_Step ==
  /\ cev'.op = "change" =>
       /\ state'.root = state.root
       /\ cev'.temp \in 36..60
       /\ currentChord'[1] = cev'.temp
  /\ cev'.op \in {"note", "show"} => cev'.read = cev'.orig
C31_RootRestored == [][C31_Step]_vars

\* a chord change from root 58 was clamped to 60, and a note played after
\* it read the root 58
C31_Witness ==
  /\ cev.op = "note" /\ cev.read = 58
  /\ currentChord[1] = 60 /\ cev.temp = 60

\* C35: once PadLayer.stop() has been called and every hard-stop timer it
\* set has run, no group of oscillators the pad layer started is still
\* playing, whatever the order of stop() and a pending chord-change timer.
C35_PadSilentAfterHardStop ==
  (lay.kind = "pad" /\ lay.stops > 0
     /\ \A tm \in timers : tm.kind # "hardstop")
    => \A i \in 1..Len(srcs) : srcs[i] # "started"

\* C39: for every pattern type of getPattern and every tick, BeatLayer.onTick
\* emits at most one of kick and ghost kick: a kick where the pattern is
\* true, which is at even positions only, a ghost kick only at positions 2,
\* 6, 10, 14 where it is false; so no swing offset is added and the kick or
\* ghost starts at exactly the time the tick was announced with.
C39_PatternTypes ==
  {"four-on-floor", "half-time", "broken", "sparse", "driving", "other"}
C39_KicksOnTheGrid ==
  /\ \A type \in C39_PatternTypes, i \in 0..15 :
       getPattern(type)[i] => i % 2 = 0
  /\ stick.layer = "beat" =>
       LET idx == stick.tick % 16
           kicks == {u \in heard : u.kind = "kick"}
           ghosts == {u \in heard : u.kind = "ghost"}
       IN /\ Cardinality(kicks \cup ghosts) <= 1
          /\ kicks # {} => (getPattern(kit.pattern)[idx] /\ idx % 2 = 0)
          /\ ghosts # {} =>
               (idx \in {2, 6, 10, 14} /\ ~getPattern(kit.pattern)[idx])
          /\ \A u \in kicks \cup ghosts : u.start = stick.time

\* a kit with swing and the broken pattern has played the kick of position
\* 6, and the teardown of the kick has run
C39_Witness ==
  /\ stick.layer = "beat" /\ kit.swing > 0 /\ kit.pattern = "broken"
  /\ stick.tick = 6 /\ \E u \in heard : u.kind = "kick" /\ u.ran >= 0

\* C40: in a run where only the creation paths and the teardowns of the
\* layers call the tracker (reset() is never called), getActive() is never
\* negative and equals the number of nodes of the transient units whose
\* teardown has not fired yet.
C40_ActiveIsPending ==
  ~wasReset =>
    /\ getActive >= 0
    /\ getActive = PendingNodes
    /\ getActive <= created

\* a ghost kick and the noise transient of a kick are pending, the kick and
\* its click are torn down
C40_Witness ==
  /\ ~wasReset /\ getActive = 2 + 6 /\ cleaned = 2 + 2
  /\ pending["ghost"] = 1 /\ pending["noise"] = 1

\* the tracks that were made and not passed to stopLayers
LiveTracks == {i \in 1..Len(made) : made[i].stops = 0}

\* C36: in simple mode, for every interleaving of next key presses, the
\* auto-advance check and quit, at most one track that has not been stopped
\* exists, and when the process exits every track that was made has been
\* passed to stopLayers.
C36_OneLiveTrack ==
  /\ Cardinality(LiveTracks) <= 1
  /\ pev.op = "exit" => LiveTracks = {}

\* C37: when the promise of stopLayers resolves and the next track is made
\* or the process exits, the fade-out ramp of every layer of the old track
\* has ended and the hard-stop timer of every layer that sets one is due.
C37_SilentBeforeNext ==
  pev.op \in {"created", "exit"} =>
    \A kind \in LayerKinds :
      /\ ctime >= pev.stopped + stopFadeTime(kind)
      /\ hasHardStop(kind) => ctime >= pev.stopped + hardStopDelay(kind)

====
